---- MODULE Spec2Model ----
(***************************************************************************)
(* Model of xls/dslx/interpreter/jit_comparison.py: the conversion of DSLX *)
(* interpreter values to IR (JIT) values, the word-by-word decoding of IR  *)
(* Bits and the recursive comparison of an interpreter value with an IR    *)
(* value.                                                                  *)
(*                                                                         *)
(* Python integers are unbounded, and the module handles widths up to 256  *)
(* bits, so an integer is modelled exactly as a sign and a magnitude, the  *)
(* magnitude being its binary digits, least significant first, without     *)
(* leading zeros: [neg |-> FALSE, mag |-> <<1, 0, 1>>] is 5.                *)
(***************************************************************************)
EXTENDS Integers, Sequences, FiniteSets

WORD_SIZE == 64

\* Bounds of the model.
MaxArrayLen == 3
MaxTupleLen == 2
MaxArgs == 2
ExhaustiveWidth == 8

(***************************************************************************)
(* Python int arithmetic, as far as the module uses it.                    *)
(***************************************************************************)
Zeros(n) == [i \in 1..n |-> 0]

Ones(n) == [i \in 1..n |-> 1]

BitAt(s, i) == IF i >= 1 /\ i <= Len(s) THEN s[i] ELSE 0

\* The highest position in lo..hi holding a 1, or 0 (by halving).
RECURSIVE TopBitIn(_, _, _)
TopBitIn(s, lo, hi) ==
  IF lo > hi THEN 0
  ELSE IF lo = hi THEN (IF s[lo] = 1 THEN lo ELSE 0)
  ELSE LET mid == (lo + hi) \div 2
           r == TopBitIn(s, mid + 1, hi)
       IN IF r # 0 THEN r ELSE TopBitIn(s, lo, mid)

\* The lowest position in lo..hi holding a 1, or 0 (by halving).
RECURSIVE LowBitIn(_, _, _)
LowBitIn(s, lo, hi) ==
  IF lo > hi THEN 0
  ELSE IF lo = hi THEN (IF s[lo] = 1 THEN lo ELSE 0)
  ELSE LET mid == (lo + hi) \div 2
           r == LowBitIn(s, lo, mid)
       IN IF r # 0 THEN r ELSE LowBitIn(s, mid + 1, hi)

\* The lowest position >= i holding a 1, or Len(s) + 1.
LowBit(s, i) ==
  LET r == LowBitIn(s, i, Len(s)) IN IF r = 0 THEN Len(s) + 1 ELSE r

Strip(s) == SubSeq(s, 1, TopBitIn(s, 1, Len(s)))

PyNat(s) == [neg |-> FALSE, mag |-> Strip(s)]

PyZero == [neg |-> FALSE, mag |-> <<>>]

\* 2^n - m for a magnitude 0 < m <= 2^n
TwoPowMinus(m, n) ==
  LET k == LowBit(m, 1)
  IN Strip([i \in 1..n |-> IF i < k THEN 0 ELSE IF i = k THEN 1 ELSE 1 - BitAt(m, i)])

\* x << n, for x >= 0
PyShl(x, n) == [neg |-> FALSE, mag |-> IF x.mag = <<>> THEN <<>> ELSE Zeros(n) \o x.mag]

\* x | y, for x >= 0 and y >= 0
PyOr(x, y) ==
  LET n == IF Len(x.mag) >= Len(y.mag) THEN Len(x.mag) ELSE Len(y.mag)
  IN [neg |-> FALSE,
      mag |-> [i \in 1..n |-> IF BitAt(x.mag, i) = 1 \/ BitAt(y.mag, i) = 1 THEN 1 ELSE 0]]

\* x - 2^n, for x >= 0
PySubPow2(x, n) ==
  IF x.mag = <<>> THEN [neg |-> TRUE, mag |-> Zeros(n) \o <<1>>]
  ELSE IF Len(x.mag) <= n THEN [neg |-> TRUE, mag |-> TwoPowMinus(x.mag, n)]
  ELSE LET j == LowBit(x.mag, n + 1)
       IN PyNat([i \in 1..Len(x.mag) |->
                   IF i <= n THEN x.mag[i] ELSE IF i < j THEN 1 ELSE IF i = j THEN 0 ELSE x.mag[i]])

\* x & (2^n - 1): the n-bit two's complement pattern of x, as a non-negative int
PyAndMask(x, n) ==
  LET low == Strip([i \in 1..n |-> BitAt(x.mag, i)])
  IN IF ~x.neg \/ low = <<>> THEN [neg |-> FALSE, mag |-> low]
     ELSE [neg |-> FALSE, mag |-> TwoPowMinus(low, n)]

(***************************************************************************)
(* xls.dslx.bit_helpers                                                    *)
(***************************************************************************)
\* The value of the bit_count-bit two's complement pattern `value`.
from_twos_complement(value, bit_count) ==
  IF BitAt(value.mag, bit_count) = 1 THEN PySubPow2(value, bit_count) ELSE value

\* The hexadecimal digits, most significant first, of value's two's
\* complement pattern at the given width.
to_hex_string(value, bit_count) ==
  LET m == PyAndMask(value, bit_count).mag
      nd == IF m = <<>> THEN 1 ELSE (Len(m) + 3) \div 4
      digit(k) == BitAt(m, 4 * k + 1) + 2 * BitAt(m, 4 * k + 2)
                  + 4 * BitAt(m, 4 * k + 3) + 8 * BitAt(m, 4 * k + 4)
  IN [i \in 1..nd |-> digit(nd - i)]

(***************************************************************************)
(* xls.ir.python.bits and xls.ir.python.number_parser: IR Bits are a bit   *)
(* count and the 64-bit words holding the pattern, least significant word  *)
(* first.                                                                  *)
(***************************************************************************)
NumWords(bit_count) == (bit_count + WORD_SIZE - 1) \div WORD_SIZE

\* The IR Bits holding a pattern (bit 0 first).
MakeBits(pattern) ==
  [bit_count |-> Len(pattern),
   words |-> [w \in 1..NumWords(Len(pattern)) |->
                [b \in 1..WORD_SIZE |-> BitAt(pattern, (w - 1) * WORD_SIZE + b)]]]

UBits(value, bit_count) == MakeBits([i \in 1..bit_count |-> BitAt(value.mag, i)])

SBits(value, bit_count) ==
  MakeBits([i \in 1..bit_count |-> BitAt(PyAndMask(value, bit_count).mag, i)])

Pow2(j) == IF j = 0 THEN 1 ELSE IF j = 1 THEN 2 ELSE IF j = 2 THEN 4 ELSE 8

bits_from_string(s, bit_count) ==
  LET nd == Len(s)
      bit(p) == LET k == (p - 1) \div 4
                    j == (p - 1) % 4
                IN IF k < nd THEN (s[nd - k] \div Pow2(j)) % 2 ELSE 0
  IN MakeBits([p \in 1..bit_count |-> bit(p)])

word_to_uint(jit_bits, word_number) == PyNat(jit_bits.words[word_number + 1])

(***************************************************************************)
(* xls.dslx.interpreter.value: an interpreter value is a tagged record;    *)
(* ubits, sbits and enum values carry their bit pattern (bit 0 first).     *)
(***************************************************************************)
is_ubits(v) == v.tag = "ubits"

is_sbits(v) == v.tag = "sbits"

is_bits(v) == is_ubits(v) \/ is_sbits(v)

is_enum(v) == v.tag = "enum"

is_array(v) == v.tag = "array"

is_tuple(v) == v.tag = "tuple"

get_bit_count(v) == Len(v.bits)

get_bits_value(v) == PyNat(v.bits)

get_bits_value_signed(v) ==
  IF BitAt(v.bits, Len(v.bits)) = 1
  THEN [neg |-> TRUE, mag |-> TwoPowMinus(Strip(v.bits), Len(v.bits))]
  ELSE PyNat(v.bits)

get_bits_value_check_sign(v) ==
  IF is_sbits(v) \/ (is_enum(v) /\ v.signed) THEN get_bits_value_signed(v)
  ELSE get_bits_value(v)

(***************************************************************************)
(* xls.ir.python.value                                                     *)
(***************************************************************************)
IrBits(b) == [tag |-> "bits", bits |-> b]

make_array(elements) == [tag |-> "array", elements |-> elements]

make_tuple(elements) == [tag |-> "tuple", elements |-> elements]

NoValue == [tag |-> "none"]

UnsupportedConversionError == "UnsupportedConversionError"

AssertionError == "AssertionError"

\* The two ways a call ends: it returns a value or it raises.
Return(x) == [raised |-> "", value |-> x]

Raise(e) == [raised |-> e, value |-> NoValue]

(***************************************************************************)
(* jit_comparison.py                                                       *)
(***************************************************************************)
\* Mutant: the sign of the value is not looked at.
_int_to_bits_unsigned_only(value, bit_count) ==
  IF bit_count <= WORD_SIZE
  THEN UBits(value, bit_count)
  ELSE bits_from_string(to_hex_string(value, bit_count), bit_count)

_int_to_bits(value, bit_count) ==
  IF bit_count <= WORD_SIZE
  THEN (IF ~value.neg THEN UBits(value, bit_count) ELSE SBits(value, bit_count))
  ELSE bits_from_string(to_hex_string(value, bit_count), bit_count)

\* The exception of the first call that raised, "" when none did.
FirstRaised(rs) ==
  IF \A i \in 1..Len(rs) : rs[i].raised = "" THEN ""
  ELSE rs[CHOOSE i \in 1..Len(rs) :
            /\ rs[i].raised # ""
            /\ \A j \in 1..(i - 1) : rs[j].raised = ""].raised

RECURSIVE convert_interpreter_value_to_ir(_)
convert_interpreter_value_to_ir(interpreter_value) ==
  IF is_bits(interpreter_value) \/ is_enum(interpreter_value)
  THEN Return(IrBits(_int_to_bits(get_bits_value_check_sign(interpreter_value),
                                  get_bit_count(interpreter_value))))
  ELSE IF is_array(interpreter_value)
  THEN LET es == interpreter_value.array_payload.elements
           ir_arr == [i \in 1..Len(es) |-> convert_interpreter_value_to_ir(es[i])]
       IN IF FirstRaised(ir_arr) # "" THEN Raise(FirstRaised(ir_arr))
          ELSE Return(make_array([i \in 1..Len(es) |-> ir_arr[i].value]))
  ELSE IF is_tuple(interpreter_value)
  THEN LET es == interpreter_value.tuple_members
           ir_tuple == [i \in 1..Len(es) |-> convert_interpreter_value_to_ir(es[i])]
       IN IF FirstRaised(ir_tuple) # "" THEN Raise(FirstRaised(ir_tuple))
          ELSE Return(make_tuple([i \in 1..Len(es) |-> ir_tuple[i].value]))
  ELSE Raise(UnsupportedConversionError)

\* Mutant: the arguments come out in reverse order.
convert_args_to_ir_reversed(args) ==
  LET ir_args == [i \in 1..Len(args) |->
                    convert_interpreter_value_to_ir(args[Len(args) + 1 - i])]
  IN IF FirstRaised(ir_args) # "" THEN Raise(FirstRaised(ir_args))
     ELSE Return([i \in 1..Len(args) |-> ir_args[i].value])

convert_args_to_ir(args) ==
  LET ir_args == [i \in 1..Len(args) |-> convert_interpreter_value_to_ir(args[i])]
  IN IF FirstRaised(ir_args) # "" THEN Raise(FirstRaised(ir_args))
     ELSE Return([i \in 1..Len(args) |-> ir_args[i].value])

\* Mutant: the loop reads whole words only.
RECURSIVE get_bits_loop_whole_words(_, _, _)
get_bits_loop_whole_words(jit_bits, bits_value, word_number) ==
  IF (word_number * 64) + 64 <= jit_bits.bit_count
  THEN get_bits_loop_whole_words(jit_bits,
                     PyOr(PyShl(word_to_uint(jit_bits, word_number),
                                word_number * WORD_SIZE),
                          bits_value),
                     word_number + 1)
  ELSE [bits_value |-> bits_value, word_number |-> word_number]

\* The while loop of get_bits: its locals when it exits.
RECURSIVE get_bits_loop(_, _, _)
get_bits_loop(jit_bits, bits_value, word_number) ==
  IF (word_number * 64) < jit_bits.bit_count
  THEN get_bits_loop(jit_bits,
                     PyOr(PyShl(word_to_uint(jit_bits, word_number),
                                word_number * WORD_SIZE),
                          bits_value),
                     word_number + 1)
  ELSE [bits_value |-> bits_value, word_number |-> word_number]

\* Mutant: the signed flag is ignored.
get_bits_ignoring_signed(jit_bits, signed) ==
  get_bits_loop(jit_bits, PyZero, 0).bits_value

get_bits(jit_bits, signed) ==
  LET bits_value == get_bits_loop(jit_bits, PyZero, 0).bits_value
  IN IF ~signed THEN bits_value
     ELSE from_twos_complement(bits_value, jit_bits.bit_count)

\* The outcome of compare_values: the exception raised ("" when every
\* assertion held), the check that raised it, and the sub-values visited, in
\* order, each named by its path of element positions from the root.
Outcome(raised, check, visited) ==
  [raised |-> raised, check |-> check, visited |-> visited]

Under(k, visited) == [i \in 1..Len(visited) |-> <<k>> \o visited[i]]

RECURSIVE compare_values(_, _)
RECURSIVE compare_elements(_, _, _, _)
\* Mutant: the loop returns after the first pair.
compare_elements_first_only(interpreter_values, jit_values, k, visited) ==
  IF k > Len(interpreter_values) \/ k > Len(jit_values)
  THEN Outcome("", "", visited)
  ELSE LET r == compare_values(interpreter_values[k], jit_values[k])
       IN Outcome(r.raised, r.check, visited \o Under(k, r.visited))

\* The for loop over zip(interpreter_values, jit_values), from position k on.
compare_elements(interpreter_values, jit_values, k, visited) ==
  IF k > Len(interpreter_values) \/ k > Len(jit_values)
  THEN Outcome("", "", visited)
  ELSE LET r == compare_values(interpreter_values[k], jit_values[k])
           seen == visited \o Under(k, r.visited)
       IN IF r.raised # "" THEN Outcome(r.raised, r.check, seen)
          ELSE compare_elements(interpreter_values, jit_values, k + 1, seen)

\* Mutant: the bit counts are not compared.
compare_bits_any_width(interpreter_value, jit_value) ==
  IF jit_value.tag # "bits"
  THEN Outcome(AssertionError, "is_bits", << <<>> >>)
  ELSE LET interpreter_bits_value ==
             IF is_ubits(interpreter_value)
             THEN get_bits_value(interpreter_value)
             ELSE get_bits_value_signed(interpreter_value)
           jit_bits_value ==
             IF is_ubits(interpreter_value)
             THEN get_bits(jit_value.bits, FALSE)
             ELSE get_bits(jit_value.bits, TRUE)
       IN IF interpreter_bits_value = jit_bits_value
          THEN Outcome("", "", << <<>> >>)
          ELSE Outcome(AssertionError, "bits_value", << <<>> >>)

\* Mutant: the IR side is read with the opposite signedness.
compare_bits_flipped_sign(interpreter_value, jit_value) ==
  IF jit_value.tag # "bits"
  THEN Outcome(AssertionError, "is_bits", << <<>> >>)
  ELSE IF get_bit_count(interpreter_value) # jit_value.bits.bit_count
  THEN Outcome(AssertionError, "bit_count", << <<>> >>)
  ELSE LET interpreter_bits_value ==
             IF is_ubits(interpreter_value)
             THEN get_bits_value(interpreter_value)
             ELSE get_bits_value_signed(interpreter_value)
           jit_bits_value ==
             IF is_ubits(interpreter_value)
             THEN get_bits(jit_value.bits, TRUE)
             ELSE get_bits(jit_value.bits, FALSE)
       IN IF interpreter_bits_value = jit_bits_value
          THEN Outcome("", "", << <<>> >>)
          ELSE Outcome(AssertionError, "bits_value", << <<>> >>)

\* Lines 94-106: an interpreter bits or enum value against jit_value.
compare_bits(interpreter_value, jit_value) ==
  IF jit_value.tag # "bits"
  THEN Outcome(AssertionError, "is_bits", << <<>> >>)
  ELSE IF get_bit_count(interpreter_value) # jit_value.bits.bit_count
  THEN Outcome(AssertionError, "bit_count", << <<>> >>)
  ELSE LET interpreter_bits_value ==
             IF is_ubits(interpreter_value)
             THEN get_bits_value(interpreter_value)
             ELSE get_bits_value_signed(interpreter_value)
           jit_bits_value ==
             IF is_ubits(interpreter_value)
             THEN get_bits(jit_value.bits, FALSE)
             ELSE get_bits(jit_value.bits, TRUE)
       IN IF interpreter_bits_value = jit_bits_value
          THEN Outcome("", "", << <<>> >>)
          ELSE Outcome(AssertionError, "bits_value", << <<>> >>)

\* Mutant: the lengths are not compared, zip stops at the shorter one.
compare_array_no_len(interpreter_value, jit_value) ==
  IF jit_value.tag # "array"
  THEN Outcome(AssertionError, "is_array", << <<>> >>)
  ELSE compare_elements(interpreter_value.array_payload.elements,
                        jit_value.elements, 1, << <<>> >>)

\* Lines 109-116: an interpreter array against jit_value.
compare_array(interpreter_value, jit_value) ==
  IF jit_value.tag # "array"
  THEN Outcome(AssertionError, "is_array", << <<>> >>)
  ELSE IF Len(interpreter_value.array_payload.elements) # Len(jit_value.elements)
  THEN Outcome(AssertionError, "len", << <<>> >>)
  ELSE compare_elements(interpreter_value.array_payload.elements,
                        jit_value.elements, 1, << <<>> >>)

\* Mutant: the lengths are compared after the members.
compare_tuple_len_last(interpreter_value, jit_value) ==
  IF jit_value.tag # "tuple"
  THEN Outcome(AssertionError, "is_tuple", << <<>> >>)
  ELSE LET r == compare_elements(interpreter_value.tuple_members,
                                 jit_value.elements, 1, << <<>> >>)
       IN IF r.raised # "" THEN r
          ELSE IF Len(interpreter_value.tuple_members) # Len(jit_value.elements)
          THEN Outcome(AssertionError, "len", r.visited)
          ELSE r

\* Lines 119-126: an interpreter tuple against jit_value.
compare_tuple(interpreter_value, jit_value) ==
  IF jit_value.tag # "tuple"
  THEN Outcome(AssertionError, "is_tuple", << <<>> >>)
  ELSE IF Len(interpreter_value.tuple_members) # Len(jit_value.elements)
  THEN Outcome(AssertionError, "len", << <<>> >>)
  ELSE compare_elements(interpreter_value.tuple_members,
                        jit_value.elements, 1, << <<>> >>)

\* Mutant: a value of no supported kind fails an assertion.
compare_values_assert_kind(interpreter_value, jit_value) ==
  IF is_bits(interpreter_value) \/ is_enum(interpreter_value)
  THEN compare_bits(interpreter_value, jit_value)
  ELSE IF is_array(interpreter_value)
  THEN compare_array(interpreter_value, jit_value)
  ELSE IF is_tuple(interpreter_value)
  THEN compare_tuple(interpreter_value, jit_value)
  ELSE Outcome(AssertionError, "variant", << <<>> >>)

compare_values(interpreter_value, jit_value) ==
  IF is_bits(interpreter_value) \/ is_enum(interpreter_value)
  THEN compare_bits(interpreter_value, jit_value)
  ELSE IF is_array(interpreter_value)
  THEN compare_array(interpreter_value, jit_value)
  ELSE IF is_tuple(interpreter_value)
  THEN compare_tuple(interpreter_value, jit_value)
  ELSE Outcome(UnsupportedConversionError, "variant", << <<>> >>)

(***************************************************************************)
(* The values the callers pass in.                                         *)
(***************************************************************************)
UBitsValue(p) == [tag |-> "ubits", bits |-> p]

SBitsValue(p) == [tag |-> "sbits", bits |-> p]

EnumValue(p, signed) == [tag |-> "enum", bits |-> p, signed |-> signed]

ArrayValue(es) == [tag |-> "array", array_payload |-> [elements |-> es]]

TupleValue(es) == [tag |-> "tuple", tuple_members |-> es]

FunctionValue == [tag |-> "function"]

NoArgs == << NoValue >>

SeqsUpTo(S, n) == UNION {[1..k -> S] : k \in 0..n}

\* The w-bit pattern of the natural number n < 2^30.
FromInt(n, w) == [i \in 1..w |-> IF i > 30 THEN 0 ELSE (n \div (2 ^ (i - 1))) % 2]

AllPatterns(w) == [1..w -> {0, 1}]

\* 0, -1, the smallest and the largest signed value, 1
CornerPatterns(w) ==
  { Zeros(w), Ones(w),
    [i \in 1..w |-> IF i = w THEN 1 ELSE 0],
    [i \in 1..w |-> IF i = w THEN 0 ELSE 1],
    [i \in 1..w |-> IF i = 1 THEN 1 ELSE 0] }

\* the corners, 2^64 - 1, 2^65 - 1, 2^64, and two mixed patterns
BoundaryPatterns(w) ==
  CornerPatterns(w) \cup
  { [i \in 1..w |-> IF i <= WORD_SIZE THEN 1 ELSE 0],
    [i \in 1..w |-> IF i <= WORD_SIZE + 1 THEN 1 ELSE 0],
    [i \in 1..w |-> IF i = WORD_SIZE + 1 THEN 1 ELSE 0],
    [i \in 1..w |-> i % 2],
    [i \in 1..w |-> IF i % 3 = 0 \/ i % 7 = 0 THEN 1 ELSE 0] }

\* a single 1 at each position, and a single 0 at each position
WalkingPatterns(w) ==
  UNION { { [i \in 1..w |-> IF i = k THEN 1 ELSE 0],
            [i \in 1..w |-> IF i = k THEN 0 ELSE 1] } : k \in 1..w }

RoundTripWidths == {1, 7, 8, 64, 65, 128, 256}

\* Every pattern of a narrow width; of a wide one, the boundary patterns and
\* the walking ones and zeros.
Patterns(w) ==
  IF w <= ExhaustiveWidth THEN AllPatterns(w)
  ELSE BoundaryPatterns(w) \cup WalkingPatterns(w)

InterpLeaves ==
  UNION { UNION { {UBitsValue(p), SBitsValue(p)} : p \in Patterns(w) }
          \cup UNION { {EnumValue(p, TRUE), EnumValue(p, FALSE)} : p \in CornerPatterns(w) }
          : w \in RoundTripWidths }

U(n, w) == UBitsValue(FromInt(n, w))

B(n, w) == IrBits(MakeBits(FromInt(n, w)))

IArr10 == ArrayValue(<< U(1, 1), U(0, 1) >>)

IExample == TupleValue(<< U(3, 4), IArr10 >>)

InterpArrays == { ArrayValue(es) : es \in SeqsUpTo({U(0, 1), U(1, 1)}, MaxArrayLen) }

InterpMembers == { U(3, 4), FunctionValue, IArr10, IExample }

InterpTuples == { TupleValue(es) : es \in SeqsUpTo(InterpMembers, MaxTupleLen) }

InterpTrees ==
  InterpArrays \cup InterpTuples
  \cup { U(3, 4), FunctionValue, SBitsValue(Ones(8)), EnumValue(Ones(8), FALSE),
         ArrayValue(<< IExample, IExample >>),
         ArrayValue(<< SBitsValue(Ones(WORD_SIZE + 1)), SBitsValue(Zeros(WORD_SIZE + 1)) >>) }

NArr10 == make_array(<< B(1, 1), B(0, 1) >>)

NExample == make_tuple(<< B(3, 4), NArr10 >>)

NativeArrays == { make_array(es) : es \in SeqsUpTo({B(0, 1), B(1, 1)}, MaxArrayLen) }

NativeMembers == { B(3, 4), B(4, 4), B(3, 5), NArr10, NExample }

NativeTuples == { make_tuple(es) : es \in SeqsUpTo(NativeMembers, MaxTupleLen) }

\* the example with one leaf value, one leaf width, one element count or one
\* variant changed
NExampleVariants ==
  { make_tuple(<< B(3, 4), make_array(<< B(1, 1), B(1, 1) >>) >>),
    make_tuple(<< B(3, 4), make_array(<< B(1, 1), B(0, 2) >>) >>),
    make_tuple(<< B(3, 4), make_array(<< B(1, 1) >>) >>),
    make_tuple(<< B(3, 4), make_array(<< B(1, 1), B(0, 1), B(0, 1) >>) >>),
    make_tuple(<< B(3, 4), make_tuple(<< B(1, 1), B(0, 1) >>) >>),
    make_tuple(<< B(3, 4), make_array(<< B(1, 1), NArr10 >>) >>),
    make_array(<< B(3, 4), NArr10 >>),
    make_array(<< NExample, NExample >>) }

NativeTrees ==
  NativeArrays \cup NativeTuples \cup NExampleVariants
  \cup { B(3, 4), IrBits(MakeBits(Ones(8))), IrBits(MakeBits(FromInt(127, 8))) }

CompareWidths == {8, 64, 65}

InterpCompareLeaves ==
  UNION { UNION { {UBitsValue(p), SBitsValue(p), EnumValue(p, TRUE), EnumValue(p, FALSE)}
                  : p \in CornerPatterns(w) } : w \in CompareWidths }

NativeCompareLeaves ==
  UNION { { IrBits(MakeBits(p)) : p \in CornerPatterns(w) } : w \in CompareWidths }

DecodeWidths == {0, 1, 7, 8, 64, 65, 128, 256}

\* IR Bits whose last word has bits set above bit_count
RaggedBits ==
  { [bit_count |-> 7, words |-> << Ones(WORD_SIZE) >>],
    [bit_count |-> 8, words |-> << [i \in 1..WORD_SIZE |-> IF i = 9 THEN 1 ELSE 0] >>],
    [bit_count |-> 65, words |-> << Ones(WORD_SIZE), Ones(WORD_SIZE) >>],
    [bit_count |-> 65, words |-> << Zeros(WORD_SIZE), FromInt(2, WORD_SIZE) >>] }

NativeDecodeInputs ==
  { IrBits(b) : b \in RaggedBits }
  \cup UNION { { IrBits(MakeBits(p)) : p \in BoundaryPatterns(w) } : w \in DecodeWidths }

ArgValues ==
  { U(3, 4), SBitsValue(Ones(WORD_SIZE + 1)), EnumValue(Ones(8), TRUE),
    ArrayValue(<< >>), IExample, FunctionValue }

Inputs ==
  { [interp |-> v, jit |-> NoValue, args |-> NoArgs] : v \in InterpLeaves \cup InterpTrees }
  \cup { [interp |-> v, jit |-> j, args |-> NoArgs]
         : v \in InterpCompareLeaves, j \in NativeCompareLeaves }
  \cup { [interp |-> v, jit |-> j, args |-> NoArgs] : v \in InterpTrees, j \in NativeTrees }
  \cup { [interp |-> NoValue, jit |-> j, args |-> NoArgs] : j \in NativeDecodeInputs }
  \cup { [interp |-> NoValue, jit |-> NoValue, args |-> a] : a \in SeqsUpTo(ArgValues, MaxArgs) }

(***************************************************************************)
(* The state: the arguments of the calls and what the calls gave.          *)
(*   interpreter_value  the DSLX value handed to the converter and the     *)
(*                      comparator (NoValue when there is none)            *)
(*   jit_value          the IR value: handed in, or the converter's result *)
(*   args, ir_args      the argument and the result of convert_args_to_ir  *)
(*   decoded            what get_bits returned, with its signed argument   *)
(*                      and the loop's final word_number                   *)
(*   outcome            how compare_values ended                           *)
(*   raised             the exception of the conversion, "" when none      *)
(*   pc                 the calls made so far                              *)
(***************************************************************************)
VARIABLES interpreter_value, jit_value, args, ir_args, decoded, outcome, raised, pc

vars == << interpreter_value, jit_value, args, ir_args, decoded, outcome, raised, pc >>

NoDecoded == [signed |-> FALSE, bits_value |-> PyZero, word_number |-> -1]

NoOutcome == Outcome("", "none", << >>)

Init ==
  /\ \E inp \in Inputs :
       /\ interpreter_value = inp.interp
       /\ jit_value = inp.jit
       /\ args = inp.args
  /\ ir_args = << >>
  /\ decoded = NoDecoded
  /\ outcome = NoOutcome
  /\ raised = ""
  /\ pc = << >>

\* jit_value = convert_interpreter_value_to_ir(interpreter_value); when the
\* call raises, the assignment does not happen.
ConvertValue ==
  /\ pc = << >>
  /\ interpreter_value # NoValue
  /\ LET r == convert_interpreter_value_to_ir(interpreter_value)
     IN /\ jit_value' = (IF r.raised = "" THEN r.value ELSE jit_value)
        /\ raised' = r.raised
  /\ pc' = << "convert" >>
  /\ UNCHANGED << interpreter_value, args, ir_args, decoded, outcome >>

\* ir_args = convert_args_to_ir(args)
ConvertArgs ==
  /\ pc = << >>
  /\ args # NoArgs
  /\ LET r == convert_args_to_ir(args)
     IN /\ ir_args' = (IF r.raised = "" THEN r.value ELSE << >>)
        /\ raised' = r.raised
  /\ pc' = << "convert_args" >>
  /\ UNCHANGED << interpreter_value, jit_value, args, decoded, outcome >>

\* get_bits(jit_value.get_bits(), signed), on IR Bits handed in or converted.
\* A signed read of a value of width 0 is not modelled: what
\* from_twos_complement does at bit_count = 0 is not in the source.
GetBits ==
  /\ pc \in { << >>, << "convert" >> }
  /\ jit_value.tag = "bits"
  /\ interpreter_value = NoValue \/ pc = << "convert" >>
  /\ \E signed \in BOOLEAN :
       /\ signed => jit_value.bits.bit_count >= 1
       /\ decoded' = [signed |-> signed,
                      bits_value |-> get_bits(jit_value.bits, signed),
                      word_number |-> get_bits_loop(jit_value.bits, PyZero, 0).word_number]
  /\ pc' = Append(pc, "get_bits")
  /\ UNCHANGED << interpreter_value, jit_value, args, ir_args, outcome, raised >>

\* compare_values(interpreter_value, jit_value)
CompareValues ==
  /\ pc \in { << >>, << "convert" >> }
  /\ interpreter_value # NoValue
  /\ jit_value # NoValue
  /\ outcome' = compare_values(interpreter_value, jit_value)
  /\ pc' = Append(pc, "compare")
  /\ UNCHANGED << interpreter_value, jit_value, args, ir_args, decoded, raised >>

Next == ConvertValue \/ ConvertArgs \/ GetBits \/ CompareValues

Spec == Init /\ [][Next]_vars

(***************************************************************************)
(* Reference notions used to state the properties.                         *)
(***************************************************************************)
\* The integer a modelled Python int stands for (magnitudes below 2^30).
ToInt(x) ==
  LET m == x.mag
      RECURSIVE sum(_)
      sum(i) == IF i > Len(m) THEN 0 ELSE m[i] * (2 ^ (i - 1)) + sum(i + 1)
  IN IF x.neg THEN 0 - sum(1) ELSE sum(1)

\* The integer a pattern of fewer than 30 bits stands for, by arithmetic.
IntOfPattern(p, signed) ==
  LET RECURSIVE sum(_)
      sum(i) == IF i > Len(p) THEN 0 ELSE p[i] * (2 ^ (i - 1)) + sum(i + 1)
  IN IF signed /\ Len(p) >= 1 /\ p[Len(p)] = 1 THEN sum(1) - 2 ^ Len(p) ELSE sum(1)

\* x, a modelled Python int, is the number the w-bit pattern p stands for:
\* p itself when p is read unsigned or its top bit is clear; otherwise x is
\* negative and its magnitude m satisfies m + p = 2^w, which for 0 < m, p < 2^w
\* means that m and p agree up to and including their lowest 1 and differ
\* above it.
IsNumberOf(x, p, signed) ==
  LET w == Len(p)
  IN IF signed /\ w >= 1 /\ p[w] = 1
     THEN /\ x.neg
          /\ Len(x.mag) >= 1 /\ Len(x.mag) <= w /\ x.mag[Len(x.mag)] = 1
          /\ \E k \in 1..w :
               /\ p[k] = 1 /\ BitAt(x.mag, k) = 1
               /\ \A i \in 1..(k - 1) : p[i] = 0 /\ BitAt(x.mag, i) = 0
               /\ \A i \in (k + 1)..w : p[i] # BitAt(x.mag, i)
     ELSE /\ ~x.neg
          /\ \A i \in 1..w : BitAt(x.mag, i) = p[i]
          /\ Len(x.mag) <= w
          /\ x.mag = << >> \/ x.mag[Len(x.mag)] = 1

\* The number of word indices i >= 0 with 64 * i < bit_count.
WordsWithin(b) == Cardinality({ i \in 0..Len(b.words) : 64 * i < b.bit_count })

\* The first n words of b laid end to end, bit 0 first.
WordsLaidOut(b, n) == [q \in 1..(64 * n) |-> b.words[((q - 1) \div 64) + 1][((q - 1) % 64) + 1]]

\* The bit_count-bit pattern that IR Bits hold.
PatternOf(b) == [q \in 1..b.bit_count |-> b.words[((q - 1) \div 64) + 1][((q - 1) % 64) + 1]]

\* No bit at or above bit_count is set in b's words.
Canonical(b) ==
  /\ Len(b.words) = WordsWithin(b)
  /\ \A q \in 1..(64 * Len(b.words)) : q > b.bit_count => WordsLaidOut(b, Len(b.words))[q] = 0

Decoded == pc # << >> /\ pc[Len(pc)] = "get_bits"

(***************************************************************************)
(* C1. Round trip: an interpreter bits value of width 1, 7, 8, 64, 65, 128 *)
(* or 256, converted to IR and decoded by get_bits with the signedness of  *)
(* the value, gives back the number the interpreter value holds.           *)
(***************************************************************************)
C1_RoundTrip ==
  ( /\ pc = << "convert", "get_bits" >>
    /\ raised = ""
    /\ is_bits(interpreter_value)
    /\ decoded.signed = is_sbits(interpreter_value) )
  => /\ jit_value.tag = "bits"
     /\ IsNumberOf(decoded.bits_value, interpreter_value.bits, decoded.signed)
     /\ decoded.bits_value = get_bits_value_check_sign(interpreter_value)
     /\ Len(interpreter_value.bits) <= ExhaustiveWidth
          => ToInt(decoded.bits_value) = IntOfPattern(interpreter_value.bits, decoded.signed)

\* -1 of width 65 went through the hexadecimal path and came back as -1.
C1_Witness ==
  /\ pc = << "convert", "get_bits" >>
  /\ interpreter_value = SBitsValue(Ones(WORD_SIZE + 1))
  /\ decoded.signed
  /\ decoded.bits_value = [neg |-> TRUE, mag |-> << 1 >>]

(***************************************************************************)
(* C6. Word packing: get_bits(bits, signed=False) is the sum of            *)
(* word[i] << (64*i) over exactly the i >= 0 with 64*i < bit_count: the    *)
(* loop reads that many words, lowest first, and the bits of the last one  *)
(* above bit_count stay in the result. The 128-bit value with words        *)
(* [0xFFFFFFFFFFFFFFFF, 1] decodes to 2^65 - 1.                            *)
(***************************************************************************)
C6_WordPacking ==
  (Decoded /\ ~decoded.signed)
  => LET b == jit_value.bits
     IN /\ decoded.word_number = WordsWithin(b)
        /\ decoded.bits_value = PyNat(WordsLaidOut(b, WordsWithin(b)))
        /\ (b.bit_count = 128 /\ b.words = << Ones(64), FromInt(1, 64) >>)
             => decoded.bits_value = [neg |-> FALSE, mag |-> Ones(65)]
        /\ (b.bit_count = 7 /\ b.words = << Ones(64) >>)
             => decoded.bits_value = [neg |-> FALSE, mag |-> Ones(64)]

C6_Witness ==
  /\ Decoded /\ ~decoded.signed
  /\ jit_value.bits.bit_count = 128
  /\ jit_value.bits.words = << Ones(64), FromInt(1, 64) >>
  /\ decoded.word_number = 2
  /\ decoded.bits_value = [neg |-> FALSE, mag |-> Ones(65)]

(***************************************************************************)
(* C7. Two's complement: for IR Bits of width bit_count >= 1 whose         *)
(* unsigned value u is below 2^bit_count, get_bits(bits, signed=True) is   *)
(* u - 2^bit_count when bit bit_count - 1 of u is set and u otherwise, and *)
(* lies in [-2^(bit_count-1), 2^(bit_count-1) - 1]. At width 8, 0xFF is    *)
(* -1, 0x80 is -128 and 0x7F is 127.                                       *)
(***************************************************************************)
C7_TwosComplement ==
  (Decoded /\ decoded.signed /\ jit_value.bits.bit_count >= 1 /\ Canonical(jit_value.bits))
  => LET b == jit_value.bits
         w == b.bit_count
         x == decoded.bits_value
     IN /\ IsNumberOf(x, PatternOf(b), TRUE)
        /\ PatternOf(b)[w] = 0 => x = PyNat(PatternOf(b))
        /\ IF x.neg THEN Len(x.mag) <= w - 1 \/ x.mag = Zeros(w - 1) \o << 1 >>
           ELSE Len(x.mag) <= w - 1
        /\ w <= ExhaustiveWidth => ToInt(x) = IntOfPattern(PatternOf(b), TRUE)
        /\ (w = 8 /\ PatternOf(b) = FromInt(255, 8)) => ToInt(x) = -1
        /\ (w = 8 /\ PatternOf(b) = FromInt(128, 8)) => ToInt(x) = -128
        /\ (w = 8 /\ PatternOf(b) = FromInt(127, 8)) => ToInt(x) = 127

C7_Witness ==
  /\ Decoded /\ decoded.signed
  /\ interpreter_value = NoValue
  /\ jit_value = IrBits(MakeBits(FromInt(128, 8)))
  /\ ToInt(decoded.bits_value) = -128

(***************************************************************************)
(* Trees: sub-values are named by their path of element positions.         *)
(***************************************************************************)
IsLeaf(v) == is_bits(v) \/ is_enum(v)

IsAggregate(v) == is_array(v) \/ is_tuple(v)

IElems(v) ==
  IF is_array(v) THEN v.array_payload.elements
  ELSE IF is_tuple(v) THEN v.tuple_members
  ELSE << >>

NElems(j) == IF j.tag \in {"array", "tuple"} THEN j.elements ELSE << >>

RECURSIVE IPaths(_)
IPaths(v) ==
  { << >> } \cup UNION { { << k >> \o q : q \in IPaths(IElems(v)[k]) } : k \in 1..Len(IElems(v)) }

RECURSIVE IAt(_, _)
IAt(v, q) == IF q = << >> THEN v ELSE IAt(IElems(v)[Head(q)], Tail(q))

RECURSIVE NHas(_, _)
NHas(j, q) == q = << >> \/ (Head(q) <= Len(NElems(j)) /\ NHas(NElems(j)[Head(q)], Tail(q)))

RECURSIVE NAt(_, _)
NAt(j, q) == IF q = << >> THEN j ELSE NAt(NElems(j)[Head(q)], Tail(q))

Front(q) == SubSeq(q, 1, Len(q) - 1)

\* Every node of v is a bits, enum, array or tuple value.
Supported(v) == \A q \in IPaths(v) : IsLeaf(IAt(v, q)) \/ IsAggregate(IAt(v, q))

\* How the interpreter's bits and enum values are read when compared.
ReadSigned(v) == ~is_ubits(v)

\* A leaf and IR Bits hold the same number, each read with the leaf's
\* signedness.
SameNumber(v, b) ==
  \E x \in { get_bits_value(v), get_bits_value_signed(v) } :
     /\ IsNumberOf(x, v.bits, ReadSigned(v))
     /\ IsNumberOf(x, PatternOf(b), ReadSigned(v))

Compared == pc # << >> /\ pc[Len(pc)] = "compare"

(***************************************************************************)
(* C2. An interpreter bits or enum value compared with IR Bits passes if   *)
(* and only if the bit counts are equal and the two numbers are equal,     *)
(* both read unsigned for unsigned bits and both read as two's complement  *)
(* for signed bits and enums. Signed 0xFF of width 8 is compared as -1.    *)
(***************************************************************************)
C2_BitsCompare ==
  (Compared /\ IsLeaf(interpreter_value) /\ jit_value.tag = "bits")
  => LET v == interpreter_value
         b == jit_value.bits
         same == /\ Len(v.bits) = b.bit_count
                 /\ SameNumber(v, b)
     IN /\ outcome.raised = "" <=> same
        /\ outcome.raised \in { "", AssertionError }
        /\ (Len(v.bits) = b.bit_count /\ b.bit_count <= ExhaustiveWidth)
             => (outcome.raised = ""
                   <=> IntOfPattern(v.bits, ReadSigned(v)) = IntOfPattern(PatternOf(b), ReadSigned(v)))
        /\ (~is_ubits(v) /\ v.bits = Ones(8) /\ b.bit_count = 8 /\ outcome.raised = "")
             => /\ ToInt(get_bits(b, TRUE)) = -1
                /\ ToInt(get_bits_value_signed(v)) = -1

C2_Witness ==
  /\ pc = << "compare" >>
  /\ interpreter_value = SBitsValue(Ones(8))
  /\ jit_value = IrBits(MakeBits(Ones(8)))
  /\ outcome.raised = ""
  /\ ToInt(get_bits(jit_value.bits, TRUE)) = -1

(***************************************************************************)
(* C3. Arity mismatch: an interpreter array or tuple compared with an IR   *)
(* array or tuple of a different element count fails an assertion, also    *)
(* when the elements of the common prefix are pairwise equal; no element   *)
(* is compared.                                                            *)
(***************************************************************************)
C3_ArityMismatch ==
  ( /\ Compared
    /\ IsAggregate(interpreter_value)
    /\ jit_value.tag \in {"array", "tuple"}
    /\ Len(IElems(interpreter_value)) # Len(jit_value.elements) )
  => /\ outcome.raised = AssertionError
     /\ outcome.visited = << << >> >>

\* three elements against the two equal to the first two of them
C3_Witness ==
  /\ pc = << "compare" >>
  /\ interpreter_value = ArrayValue(<< U(1, 1), U(0, 1), U(1, 1) >>)
  /\ jit_value = make_array(<< B(1, 1), B(0, 1) >>)
  /\ outcome.raised = AssertionError
  /\ outcome.check = "len"

(***************************************************************************)
(* C4. An interpreter value that is no bits, enum, array or tuple raises   *)
(* UnsupportedConversionError from convert_interpreter_value_to_ir and     *)
(* from compare_values, whatever IR value it is compared with.             *)
(***************************************************************************)
C4_UnsupportedVariant ==
  (interpreter_value # NoValue /\ ~IsLeaf(interpreter_value) /\ ~IsAggregate(interpreter_value))
  => /\ (pc # << >> /\ pc[1] = "convert") => raised = UnsupportedConversionError
     /\ Compared => outcome.raised = UnsupportedConversionError

C4_Witness ==
  /\ pc = << "convert", "compare" >>
  /\ interpreter_value = FunctionValue
  /\ jit_value.tag = "tuple"
  /\ raised = UnsupportedConversionError
  /\ outcome.raised = UnsupportedConversionError

NodeMatches(v, j) ==
  IF IsLeaf(v) THEN j.tag = "bits" /\ Len(v.bits) = j.bits.bit_count /\ SameNumber(v, j.bits)
  ELSE IF is_array(v) THEN j.tag = "array" /\ Len(IElems(v)) = Len(j.elements)
  ELSE IF is_tuple(v) THEN j.tag = "tuple" /\ Len(IElems(v)) = Len(j.elements)
  ELSE FALSE

StructurallyEqual(v, j) ==
  \A q \in IPaths(v) : NHas(j, q) /\ NodeMatches(IAt(v, q), NAt(j, q))

(***************************************************************************)
(* C5. Structural equality: for an interpreter value made of tuples,       *)
(* arrays, bits and enums, compare_values passes if and only if at every   *)
(* node the IR value has the matching variant, aggregates have the same    *)
(* element count, elements correspond in order, and leaves have the same   *)
(* width and the same number; otherwise it fails an assertion.             *)
(***************************************************************************)
C5_StructuralEquality ==
  (Compared /\ Supported(interpreter_value))
  => /\ outcome.raised = "" <=> StructurallyEqual(interpreter_value, jit_value)
     /\ outcome.raised \in { "", AssertionError }

\* the example of the specification, against its equal and against a copy
\* with one leaf changed
C5_Witness ==
  /\ pc = << "compare" >>
  /\ interpreter_value = IExample
  /\ jit_value = make_tuple(<< B(3, 4), make_array(<< B(1, 1), B(1, 1) >>) >>)
  /\ outcome.raised = AssertionError
  /\ compare_values(IExample, NExample).raised = ""

ShapeKept(v, j) ==
  \A q \in IPaths(v) :
     /\ NHas(j, q)
     /\ LET a == IAt(v, q)
            n == NAt(j, q)
        IN IF IsLeaf(a)
           THEN n.tag = "bits" /\ n.bits.bit_count = Len(a.bits) /\ PatternOf(n.bits) = a.bits
           ELSE /\ n.tag = a.tag
                /\ Len(n.elements) = Len(IElems(a))
                /\ n = convert_interpreter_value_to_ir(a).value

(***************************************************************************)
(* C8. Shape preservation: convert_args_to_ir returns as many values as it *)
(* was given, the i-th the conversion of the i-th argument;                *)
(* convert_interpreter_value_to_ir maps bits and enums to IR Bits of the   *)
(* same width, arrays to arrays and tuples to tuples with the same element *)
(* count and order at every level; an empty array gives an empty array.    *)
(***************************************************************************)
C8_ShapePreserved ==
  /\ (pc = << "convert_args" >> /\ raised = "")
       => /\ Len(ir_args) = Len(args)
          /\ \A i \in 1..Len(args) :
               /\ ir_args[i] = convert_interpreter_value_to_ir(args[i]).value
               /\ ShapeKept(args[i], ir_args[i])
  /\ (pc # << >> /\ pc[1] = "convert" /\ raised = "")
       => /\ ShapeKept(interpreter_value, jit_value)
          /\ interpreter_value = ArrayValue(<< >>) => jit_value = make_array(<< >>)

C8_Witness ==
  /\ pc = << "convert_args" >>
  /\ args = << IExample, ArrayValue(<< >>) >>
  /\ ir_args = << NExample, make_array(<< >>) >>

(***************************************************************************)
(* C9. Self-consistency: for every interpreter value made of unsigned      *)
(* bits, signed bits, enums, arrays and tuples, the conversion does not    *)
(* raise and compare_values of the value with its conversion passes.       *)
(***************************************************************************)
C9_SelfConsistent ==
  (pc # << >> /\ pc[1] = "convert" /\ Supported(interpreter_value))
  => /\ raised = ""
     /\ pc = << "convert", "compare" >> => outcome.raised = ""

\* an array of two signed 65-bit values, -1 and 0
C9_Witness ==
  /\ pc = << "convert", "compare" >>
  /\ interpreter_value =
       ArrayValue(<< SBitsValue(Ones(WORD_SIZE + 1)), SBitsValue(Zeros(WORD_SIZE + 1)) >>)
  /\ raised = ""
  /\ outcome.raised = ""

\* The check that fails at a node taken alone, "" when none does.
NodeCheck(v, j) ==
  IF IsLeaf(v)
  THEN (IF j.tag # "bits" THEN "is_bits"
        ELSE IF Len(v.bits) # j.bits.bit_count THEN "bit_count"
        ELSE IF ~SameNumber(v, j.bits) THEN "bits_value"
        ELSE "")
  ELSE IF is_array(v)
  THEN (IF j.tag # "array" THEN "is_array"
        ELSE IF Len(IElems(v)) # Len(j.elements) THEN "len"
        ELSE "")
  ELSE IF is_tuple(v)
  THEN (IF j.tag # "tuple" THEN "is_tuple"
        ELSE IF Len(IElems(v)) # Len(j.elements) THEN "len"
        ELSE "")
  ELSE "variant"

ErrorOf(check) ==
  IF check = "" THEN "" ELSE IF check = "variant" THEN UnsupportedConversionError
  ELSE AssertionError

\* The nodes all of whose ancestors pass their own checks.
RECURSIVE Open(_, _, _)
Open(v, j, q) ==
  q = << >> \/ (Open(v, j, Front(q)) /\ NodeCheck(IAt(v, Front(q)), NAt(j, Front(q))) = "")

\* q comes before r depth first, left to right.
Before(q, r) ==
  \/ Len(q) < Len(r) /\ SubSeq(r, 1, Len(q)) = q
  \/ \E i \in 1..Len(q) :
       /\ i <= Len(r)
       /\ SubSeq(q, 1, i - 1) = SubSeq(r, 1, i - 1)
       /\ q[i] < r[i]

(***************************************************************************)
(* C10. Fail fast: compare_values visits the sub-values depth first, left  *)
(* to right; at a node it checks the IR variant, then the element count,   *)
(* then the elements in order, and it stops at the first check that fails. *)
(* The outcome is the error of the first failing node in that order, and   *)
(* no sub-value after it is visited.                                       *)
(***************************************************************************)
C10_FailFast ==
  Compared
  => LET v == interpreter_value
         j == jit_value
         open == { q \in IPaths(v) : Open(v, j, q) }
         failing == { q \in open : NodeCheck(IAt(v, q), NAt(j, q)) # "" }
         seen == { outcome.visited[i] : i \in 1..Len(outcome.visited) }
     IN /\ \A i \in 1..(Len(outcome.visited) - 1) :
             Before(outcome.visited[i], outcome.visited[i + 1])
        /\ IF failing = { }
           THEN outcome.raised = "" /\ seen = open
           ELSE LET first == CHOOSE q \in failing : \A r \in failing : r = q \/ Before(q, r)
                IN /\ outcome.check = NodeCheck(IAt(v, first), NAt(j, first))
                   /\ outcome.raised = ErrorOf(outcome.check)
                   /\ seen = { q \in open : q = first \/ Before(q, first) }
                   /\ outcome.visited[Len(outcome.visited)] = first

\* an arity mismatch wins over the unsupported member inside
C10_Witness ==
  /\ pc = << "compare" >>
  /\ interpreter_value = TupleValue(<< U(3, 4), FunctionValue >>)
  /\ jit_value = make_tuple(<< B(3, 4) >>)
  /\ outcome.raised = AssertionError
  /\ outcome.check = "len"
  /\ compare_values(TupleValue(<< FunctionValue, U(3, 4) >>),
                    make_tuple(<< B(3, 4), B(4, 4) >>)).raised = UnsupportedConversionError
  /\ compare_values(TupleValue(<< U(3, 4), FunctionValue >>),
                    make_tuple(<< B(4, 4), B(4, 4) >>)).raised = AssertionError

====
